---- MODULE Spec2Model ----
(***************************************************************************)
(* Model of icons/create_icons.py: main() renders the extension icon at    *)
(* the sizes 16, 32, 48 and 128 and saves each one as icon<size>.png.      *)
(*                                                                         *)
(* The raster is modelled pixel by pixel.  The drawing primitives of the   *)
(* imaging library are modelled by their documented raster rules:          *)
(*   - ellipse: the pixels of the bounding box [x0, y0, x1, y1] (inclusive)*)
(*     that satisfy the ellipse inequality; the fill is painted first and  *)
(*     the outline, a ring of the given width, on top of it;               *)
(*   - line of width <= 1 between two points on one axis: the run of       *)
(*     pixels between them; a wider line: the rectangle that extends       *)
(*     (w-1) \div 2 pixels to one side and w \div 2 to the other;          *)
(*   - drawing outside the canvas is clipped.                              *)
(***************************************************************************)
EXTENDS Integers, Sequences, FiniteSets, TLC

VARIABLES
    fs,        \* the working directory: file name -> [exists, content]
    dir0,      \* the working directory as it was when the run started
    faulty,    \* whether the platform may fail an allocation or a file operation
    pc,        \* control point
    idx,       \* main: how many entries of sizes the loop has taken
    size,      \* create_icon: argument size
    filename,  \* create_icon: argument filename
    img,       \* create_icon: local img (the canvas), NoImage outside a call
    i,         \* create_icon: loop variable of the two for loops
    out,       \* standard output: the lines printed so far
    trace,     \* history: the library calls made, in order
    calls,     \* history: number of create_icon invocations started
    written,   \* history: names of the files this run opened and changed
    err        \* the exception that terminated the script, "none" otherwise

vars == <<fs, dir0, faulty, pc, idx, size, filename, img, i, out, trace, calls,
          written, err>>

----------------------------------------------------------------------------
(* Bounds of the harness specifications *)

MaxSize == 96      \* SpecRender draws size from 1..MaxSize
MaxRepSize == 2    \* SpecRepeat draws size from 1..MaxRepSize and 16
MaxCalls == 3      \* SpecRepeat makes at most MaxCalls invocations

----------------------------------------------------------------------------
(* Constants of the script *)

\* mutant of Sizes: two entries of the list exchanged
SizesExchanged == <<16, 48, 32, 128>>

Sizes == <<16, 32, 48, 128>>

\* mutant of FileName: the suffix is missing from the f-string
FileNameNoSuffix(s) == "icon" \o ToString(s)

FileName(s) == "icon" \o ToString(s) \o ".png"

Message(f, s) ==
    "Created " \o f \o " (" \o ToString(s) \o "x" \o ToString(s) \o ")"

Transparent == <<0, 0, 0, 0>>
\* mutant of FillColor: the channels given in the order blue, green, red
FillColorBGR == <<186, 124, 0, 255>>

FillColor == <<0, 124, 186, 255>>
OutlineColor == <<0, 90, 140, 255>>
White == <<255, 255, 255, 255>>
OutlineWidth == 2

Max(a, b) == IF a >= b THEN a ELSE b

----------------------------------------------------------------------------
(* Geometry computed by create_icon *)

Margin(s) == s \div 8

Center(s) == s \div 2

LineWidth(s) == Max(1, s \div 16)

\* y = center - size//6 + i * size//6; * and // have the same precedence
\* and associate to the left, so the last term is (i * size) // 6
HLineY(s, k) == Center(s) - s \div 6 + (k * s) \div 6

HLineX1(s) == Center(s) - s \div 4

\* mutant of HLineX2: half the size instead of a quarter
HLineX2Half(s) == Center(s) + s \div 2

HLineX2(s) == Center(s) + s \div 4

\* x = center - size//8 + i * size//4
VLineX(s, k) == Center(s) - s \div 8 + (k * s) \div 4

VLineY1(s) == Center(s) - s \div 6

VLineY2(s) == Center(s) + s \div 6

EllipseBox(s) == <<Margin(s), Margin(s), s - Margin(s), s - Margin(s)>>

----------------------------------------------------------------------------
(* The canvas and the drawing primitives *)

NoImage == [mode |-> "none", size |-> <<0, 0>>, px |-> <<>>]

\* mutant of Background: an opaque black background
BackgroundOpaque == <<0, 0, 0, 255>>

Background == Transparent

\* Image.new('RGBA', (size, size), (0, 0, 0, 0))
ImageNew(s) ==
    [mode |-> "RGBA", size |-> <<s, s>>,
     px |-> [x \in 0..(s - 1) |-> [y \in 0..(s - 1) |-> Background]]]

InEllipse(box, x, y) ==
    LET w == box[3] - box[1]
        h == box[4] - box[2]
        u == 2 * x - box[1] - box[3]
        v == 2 * y - box[2] - box[4]
    IN  /\ w > 0 /\ h > 0
        /\ box[1] <= x /\ x <= box[3]
        /\ box[2] <= y /\ y <= box[4]
        /\ u * u * h * h + v * v * w * w <= w * w * h * h

\* draw.ellipse(box, fill=..., outline=..., width=...)
Ellipse(im, box, fill, outline, width) ==
    LET inner == <<box[1] + width, box[2] + width,
                   box[3] - width, box[4] - width>>
    IN  [im EXCEPT !.px =
            [x \in DOMAIN im.px |-> [y \in DOMAIN im.px[x] |->
                IF InEllipse(box, x, y)
                THEN IF InEllipse(inner, x, y) THEN fill ELSE outline
                ELSE im.px[x][y]]]]

\* the pixels a line of the given width between two points on one axis covers
OnLine(xy, width, x, y) ==
    LET lox == IF xy[1] <= xy[3] THEN xy[1] ELSE xy[3]
        hix == IF xy[1] <= xy[3] THEN xy[3] ELSE xy[1]
        loy == IF xy[2] <= xy[4] THEN xy[2] ELSE xy[4]
        hiy == IF xy[2] <= xy[4] THEN xy[4] ELSE xy[2]
        a == (width - 1) \div 2
        b == width \div 2
    IN  IF width <= 1 \/ (xy[1] = xy[3] /\ xy[2] = xy[4])
        THEN lox <= x /\ x <= hix /\ loy <= y /\ y <= hiy
        ELSE IF xy[2] = xy[4]
        THEN lox <= x /\ x <= hix /\ loy - a <= y /\ y <= loy + b
        ELSE lox - a <= x /\ x <= lox + b /\ loy <= y /\ y <= hiy

\* draw.line(xy, fill=..., width=...)
Line(im, xy, fill, width) ==
    [im EXCEPT !.px =
        [x \in DOMAIN im.px |-> [y \in DOMAIN im.px[x] |->
            IF OnLine(xy, width, x, y) THEN fill ELSE im.px[x][y]]]]

----------------------------------------------------------------------------
(* Files *)

Absent == [exists |-> FALSE, content |-> <<>>]

Junk == [exists |-> TRUE, content |-> <<[format |-> "OLD"]>>]

\* mutant of EncodePNG: the encoder embeds a counter that changes per call
EncodePNGStamped(im) ==
    [format |-> "PNG", mode |-> im.mode, size |-> im.size, data |-> im.px,
     stamp |-> calls]

\* the PNG encoding of a canvas: header (mode, dimensions) and pixel data
EncodePNG(im) ==
    [format |-> "PNG", mode |-> im.mode, size |-> im.size, data |-> im.px]

\* mutant of OpenTruncate: exclusive creation, which refuses an existing file
OpenExclusive(old) ==
    [ok |-> ~old.exists, file |-> [exists |-> TRUE, content |-> <<>>]]

\* img.save opens the file for writing: created if absent, truncated if not
OpenTruncate(old) ==
    [ok |-> TRUE, file |-> [exists |-> TRUE, content |-> <<>>]]

WriteTo(file, blob) == [file EXCEPT !.content = Append(@, blob)]

IconFiles == {FileName(Sizes[k]) : k \in DOMAIN Sizes}

OtherFile == "manifest.json"

\* the canvas create_icon(s, ...) holds when it reaches img.save
Rendered(s) ==
    LET h(im, k) == Line(im, <<HLineX1(s), HLineY(s, k), HLineX2(s),
                               HLineY(s, k)>>, White, LineWidth(s))
        v(im, k) == Line(im, <<VLineX(s, k), VLineY1(s), VLineX(s, k),
                               VLineY2(s)>>, White, LineWidth(s))
        c == Ellipse(ImageNew(s), EllipseBox(s), FillColor, OutlineColor,
                     OutlineWidth)
    IN  v(v(h(h(h(c, 0), 1), 2), 0), 1)

Event(op, args) == [op |-> op, size |-> size, args |-> args]

----------------------------------------------------------------------------
(* create_icon, statement by statement *)

\* img = Image.new(...); draw = ImageDraw.Draw(img)
CreateCanvas ==
    /\ pc = "new"
    /\ img' = ImageNew(size)
    /\ trace' = Append(trace, Event("new", <<size, size>>))
    /\ pc' = "ellipse"
    /\ UNCHANGED <<fs, dir0, faulty, idx, size, filename, i, out, calls, written,
                   err>>

\* draw.ellipse([margin, margin, size-margin, size-margin], ...)
DrawEllipse ==
    /\ pc = "ellipse"
    /\ img' = Ellipse(img, EllipseBox(size), FillColor, OutlineColor,
                      OutlineWidth)
    /\ trace' = Append(trace, Event("ellipse", EllipseBox(size)))
    /\ pc' = "hline"
    /\ i' = 0
    /\ UNCHANGED <<fs, dir0, faulty, idx, size, filename, out, calls, written,
                   err>>

\* for i in range(3): draw.line([x1, y, x2, y], ...)
DrawHLine ==
    /\ pc = "hline"
    /\ LET xy == <<HLineX1(size), HLineY(size, i), HLineX2(size),
                   HLineY(size, i)>>
       IN  /\ img' = Line(img, xy, White, LineWidth(size))
           /\ trace' = Append(trace,
                         Event("hline", xy \o <<LineWidth(size)>>))
    /\ IF i + 1 < 3
       THEN /\ i' = i + 1
            /\ pc' = "hline"
       ELSE /\ i' = 0
            /\ pc' = "vline"
    /\ UNCHANGED <<fs, dir0, faulty, idx, size, filename, out, calls, written,
                   err>>

\* for i in range(2): draw.line([x, y1, x, y2], ...)
DrawVLine ==
    /\ pc = "vline"
    /\ LET xy == <<VLineX(size, i), VLineY1(size), VLineX(size, i),
                   VLineY2(size)>>
       IN  /\ img' = Line(img, xy, White, LineWidth(size))
           /\ trace' = Append(trace,
                         Event("vline", xy \o <<LineWidth(size)>>))
    /\ IF i + 1 < 2
       THEN /\ i' = i + 1
            /\ pc' = "vline"
       ELSE /\ i' = 0
            /\ pc' = "save"
    /\ UNCHANGED <<fs, dir0, faulty, idx, size, filename, out, calls, written,
                   err>>

\* img.save(filename, 'PNG')
Save ==
    /\ pc = "save"
    /\ OpenTruncate(fs[filename]).ok
    /\ fs' = [fs EXCEPT ![filename] =
                WriteTo(OpenTruncate(fs[filename]).file, EncodePNG(img))]
    /\ written' = written \cup {filename}
    /\ trace' = Append(trace, Event("save", <<filename>>))
    /\ pc' = "print"
    /\ UNCHANGED <<dir0, faulty, idx, size, filename, img, i, out, calls, err>>

\* print(f"Created {filename} ({size}x{size})"), then return
PrintConfirmation ==
    /\ pc = "print"
    /\ out' = Append(out, Message(filename, size))
    /\ trace' = Append(trace, Event("print", <<filename>>))
    /\ img' = NoImage
    /\ pc' = "main"
    /\ UNCHANGED <<fs, dir0, faulty, idx, size, filename, i, calls, written, err>>

----------------------------------------------------------------------------
(* Faults.  Neither create_icon nor main has a try statement: an exception *)
(* raised by the library unwinds both frames and terminates the script.    *)

\* mutant of Unhandled: the loop body catches the exception and goes on
Swallowed(e) == [pc |-> "main", err |-> e]

Unhandled(e) == [pc |-> "failed", err |-> e]

\* Image.new raises (the platform cannot allocate the raster)
AllocFails ==
    /\ pc = "new"
    /\ faulty
    /\ pc' = Unhandled("MemoryError").pc
    /\ err' = Unhandled("MemoryError").err
    /\ img' = NoImage
    /\ UNCHANGED <<fs, dir0, faulty, idx, size, filename, i, out, trace, calls,
                   written>>

\* img.save raises while opening the file: the file is left as it was
OpenFails ==
    /\ pc = "save"
    /\ faulty \/ ~OpenTruncate(fs[filename]).ok
    /\ LET e == IF OpenTruncate(fs[filename]).ok THEN "PermissionError"
                ELSE "FileExistsError"
       IN  /\ pc' = Unhandled(e).pc
           /\ err' = Unhandled(e).err
    /\ img' = NoImage
    /\ UNCHANGED <<fs, dir0, faulty, idx, size, filename, i, out, trace, calls,
                   written>>

\* img.save raises while writing: the opened file is left truncated, or is
\* removed again if the call created it
WriteFails ==
    /\ pc = "save"
    /\ faulty
    /\ OpenTruncate(fs[filename]).ok
    /\ \E left \in {OpenTruncate(fs[filename]).file} \cup
                    (IF fs[filename].exists THEN {} ELSE {Absent}) :
           fs' = [fs EXCEPT ![filename] = left]
    /\ written' = written \cup {filename}
    /\ pc' = Unhandled("OSError").pc
    /\ err' = Unhandled("OSError").err
    /\ img' = NoImage
    /\ UNCHANGED <<dir0, faulty, idx, size, filename, i, out, trace, calls>>

----------------------------------------------------------------------------
(* main *)

\* for size in sizes: filename = f"icon{size}.png"; create_icon(size, filename)
MainIter ==
    /\ pc = "main"
    /\ idx < Len(Sizes)
    /\ idx' = idx + 1
    /\ size' = Sizes[idx + 1]
    /\ filename' = FileName(Sizes[idx + 1])
    /\ calls' = calls + 1
    /\ pc' = "new"
    /\ UNCHANGED <<fs, dir0, faulty, img, i, out, trace, written, err>>

MainExit ==
    /\ pc = "main"
    /\ idx = Len(Sizes)
    /\ pc' = "done"
    /\ UNCHANGED <<fs, dir0, faulty, idx, size, filename, img, i, out, trace,
                   calls, written, err>>

Init ==
    /\ dir0 \in [IconFiles \cup {OtherFile} -> {Absent, Junk}]
    /\ dir0[OtherFile] = Junk
    /\ fs = dir0
    /\ faulty \in BOOLEAN
    /\ pc = "main"
    /\ idx = 0
    /\ size = 0
    /\ filename = ""
    /\ img = NoImage
    /\ i = 0
    /\ out = <<>>
    /\ trace = <<>>
    /\ calls = 0
    /\ written = {}
    /\ err = "none"

Next ==
    \/ MainIter
    \/ CreateCanvas
    \/ DrawEllipse
    \/ DrawHLine
    \/ DrawVLine
    \/ Save
    \/ PrintConfirmation
    \/ AllocFails
    \/ OpenFails
    \/ WriteFails
    \/ MainExit

Spec == Init /\ [][Next]_vars

----------------------------------------------------------------------------
(* create_icon on its own: one invocation with any size of 1..MaxSize *)

RenderPath == "out.png"

InitRender ==
    /\ dir0 = [p \in {RenderPath} |-> Absent]
    /\ fs = dir0
    /\ faulty = FALSE
    /\ pc = "new"
    /\ idx = 0
    /\ size \in 1..MaxSize
    /\ filename = RenderPath
    /\ img = NoImage
    /\ i = 0
    /\ out = <<>>
    /\ trace = <<>>
    /\ calls = 1
    /\ written = {}
    /\ err = "none"

NextRender ==
    \/ CreateCanvas
    \/ DrawEllipse
    \/ DrawHLine
    \/ DrawVLine
    \/ Save
    \/ PrintConfirmation

SpecRender == InitRender /\ [][NextRender]_vars

----------------------------------------------------------------------------
(* create_icon invoked repeatedly, with any of a few sizes and paths *)

RepSizes == (1..MaxRepSize) \cup {Sizes[1]}

RepPaths == {"a.png", "b.png"}

InitRepeat ==
    /\ dir0 = [p \in RepPaths |-> Absent]
    /\ fs = dir0
    /\ faulty = FALSE
    /\ pc = "main"
    /\ idx = 0
    /\ size = 0
    /\ filename = ""
    /\ img = NoImage
    /\ i = 0
    /\ out = <<>>
    /\ trace = <<>>
    /\ calls = 0
    /\ written = {}
    /\ err = "none"

\* create_icon(s, p)
Invoke(s, p) ==
    /\ pc = "main"
    /\ calls < MaxCalls
    /\ size' = s
    /\ filename' = p
    /\ calls' = calls + 1
    /\ pc' = "new"
    /\ UNCHANGED <<fs, dir0, faulty, idx, img, i, out, trace, written, err>>

NextRepeat ==
    \/ \E s \in RepSizes, p \in RepPaths : Invoke(s, p)
    \/ CreateCanvas
    \/ DrawEllipse
    \/ DrawHLine
    \/ DrawVLine
    \/ Save
    \/ PrintConfirmation

SpecRepeat == InitRepeat /\ [][NextRepeat]_vars

----------------------------------------------------------------------------
(* Vocabulary of the properties *)

IconSizes == {16, 32, 48, 128}

IconName(s) ==
    CASE s = 16 -> "icon16.png"
      [] s = 32 -> "icon32.png"
      [] s = 48 -> "icon48.png"
      [] s = 128 -> "icon128.png"

IconMessage(s) ==
    CASE s = 16 -> "Created icon16.png (16x16)"
      [] s = 32 -> "Created icon32.png (32x32)"
      [] s = 48 -> "Created icon48.png (48x48)"
      [] s = 128 -> "Created icon128.png (128x128)"

IsPNG(f) == f.exists /\ Len(f.content) = 1 /\ f.content[1].format = "PNG"

\* the file is one this run saved completely
Saved(s) == IconName(s) \in written /\ IsPNG(fs[IconName(s)])

Pixels(s) == fs[IconName(s)].content[1].data

Printed(m) == \E k \in DOMAIN out : out[k] = m

IsHLine(e) == e.op = "hline"

IsVLine(e) == e.op = "vline"

IsSave(e) == e.op = "save"

HLines == SelectSeq(trace, IsHLine)

VLines == SelectSeq(trace, IsVLine)

Saves == SelectSeq(trace, IsSave)

----------------------------------------------------------------------------
(* The properties *)

\* C1: when main() has run to completion, whatever the directory held at the
\* start, the files the run wrote are exactly icon16.png, icon32.png,
\* icon48.png and icon128.png, and icon<s>.png holds an RGBA image of
\* s by s pixels.
C1_OutputFiles ==
    pc = "done" =>
        /\ written = {"icon16.png", "icon32.png", "icon48.png", "icon128.png"}
        /\ \A s \in IconSizes :
              /\ IsPNG(fs[IconName(s)])
              /\ fs[IconName(s)].content[1].mode = "RGBA"
              /\ fs[IconName(s)].content[1].size = <<s, s>>
              /\ DOMAIN Pixels(s) = 0..(s - 1)
              /\ \A x \in 0..(s - 1) : DOMAIN Pixels(s)[x] = 0..(s - 1)

\* C1 witness: a completed run in a directory that held some of the files
C1_Witness ==
    /\ pc = "done"
    /\ dir0["icon128.png"] = Junk
    /\ dir0["icon16.png"] = Absent
    /\ Saved(128) /\ Saved(16)

C3_Overwrite ==
    ~faulty =>
        /\ pc # "failed"
        /\ err = "none"
        /\ fs[OtherFile] = dir0[OtherFile]
        /\ pc = "done" =>
              \A s \in IconSizes :
                  fs[IconName(s)] =
                      [exists |-> TRUE, content |-> <<EncodePNG(Rendered(s))>>]

\* C3 witness: an undisturbed run is done in a directory that held a proper
\* subset of the files
C3_Witness ==
    /\ ~faulty
    /\ pc = "done"
    /\ dir0["icon16.png"] = Junk
    /\ dir0["icon48.png"] = Junk
    /\ dir0["icon32.png"] = Absent
    /\ fs["icon16.png"] # dir0["icon16.png"]

\* C4: for every size s of 16, 32, 48, 128 the three horizontal segments are
\* evenly spaced and vertically centred: y0 < y1 < y2, y1 - y0 = y2 - y1,
\* y1 = s \div 2, and each spans x from s \div 2 - s \div 4 to
\* s \div 2 + s \div 4.
C4_EvenlySpaced ==
    \A s \in IconSizes :
        LET hs == SelectSeq(HLines, LAMBDA e : e.size = s)
        IN  Len(hs) = 3 =>
              /\ hs[1].args[2] < hs[2].args[2]
              /\ hs[2].args[2] < hs[3].args[2]
              /\ hs[2].args[2] - hs[1].args[2] = hs[3].args[2] - hs[2].args[2]
              /\ hs[2].args[2] = s \div 2
              /\ \A k \in 1..3 :
                    /\ hs[k].args[1] = s \div 2 - s \div 4
                    /\ hs[k].args[3] = s \div 2 + s \div 4
                    /\ hs[k].args[4] = hs[k].args[2]

\* C5: for every size s of 16, 32, 48, 128 each of the two vertical segments
\* starts at the y of the topmost horizontal segment, ends at the y of the
\* bottommost one, and its x lies between the horizontal segments' x
\* endpoints.
C5_Connecting ==
    \A s \in IconSizes :
        LET hs == SelectSeq(HLines, LAMBDA e : e.size = s)
            vs == SelectSeq(VLines, LAMBDA e : e.size = s)
        IN  Len(vs) = 2 =>
              \A k \in 1..2 :
                  /\ vs[k].args[2] = hs[1].args[2]
                  /\ vs[k].args[4] = hs[3].args[2]
                  /\ vs[k].args[1] = vs[k].args[3]
                  /\ hs[1].args[1] <= vs[k].args[1]
                  /\ vs[k].args[1] <= hs[1].args[3]

\* C6: for every size s of 16, 32, 48, 128 the four corner pixels of the
\* canvas stay fully transparent through every drawing step, and so are
\* fully transparent in the image saved.
C6_CornersTransparent ==
    /\ (img # NoImage /\ size \in IconSizes) =>
          \A x \in {0, size - 1}, y \in {0, size - 1} : img.px[x][y][4] = 0
    /\ \A s \in IconSizes :
          Saved(s) =>
              \A x \in {0, s - 1}, y \in {0, s - 1} : Pixels(s)[x][y][4] = 0

\* C6 witness: the largest icon is saved
C6_Witness == pc = "print" /\ size = 128 /\ Saved(128)

\* C7: for every size s of 16, 32, 48, 128 the image saved holds at least one
\* pixel of the fill colour (0, 124, 186, 255) and at least one white pixel
\* (255, 255, 255, 255), and the line width is at least 1.
C7_FillAndWhite ==
    \A s \in IconSizes :
        Saved(s) =>
            /\ \E x \in 0..(s - 1), y \in 0..(s - 1) :
                  Pixels(s)[x][y] = <<0, 124, 186, 255>>
            /\ \E x \in 0..(s - 1), y \in 0..(s - 1) :
                  Pixels(s)[x][y] = <<255, 255, 255, 255>>
            /\ \A k \in DOMAIN HLines : HLines[k].args[5] >= 1
            /\ \A k \in DOMAIN VLines : VLines[k].args[5] >= 1

\* C7 witness: the smallest icon, where the lines are one pixel wide, is saved
C7_Witness == pc = "print" /\ size = 16 /\ Saved(16) /\ HLines[1].args[5] = 1

Order == <<16, 32, 48, 128>>

Position(s) == CHOOSE k \in 1..4 : Order[k] = s

\* C8: a failure while rendering or saving the icon of size k is not caught:
\* the script has terminated, the icons of the sizes before k are written
\* and confirmed, no file is written and no confirmation printed for a size
\* after k, and no confirmation is printed for k.
C8_FailureStops ==
    err # "none" =>
        /\ pc = "failed"
        /\ ~ENABLED Next
        /\ \A j \in 1..4 :
              /\ j < Position(size) =>
                    /\ Saved(Order[j])
                    /\ fs[IconName(Order[j])].content[1].size
                          = <<Order[j], Order[j]>>
                    /\ Printed(IconMessage(Order[j]))
              /\ j > Position(size) =>
                    /\ IconName(Order[j]) \notin written
                    /\ fs[IconName(Order[j])] = dir0[IconName(Order[j])]
                    /\ ~Printed(IconMessage(Order[j]))
              /\ j = Position(size) => ~Printed(IconMessage(Order[j]))

\* C8 witness: saving the third icon failed while writing
C8_Witness ==
    /\ pc = "failed"
    /\ err = "OSError"
    /\ size = 48
    /\ Saved(16) /\ Saved(32)
    /\ dir0["icon128.png"] = Junk

StepsOf(s) ==
    <<<<"new", s>>, <<"ellipse", s>>, <<"hline", s>>, <<"hline", s>>,
      <<"hline", s>>, <<"vline", s>>, <<"vline", s>>, <<"save", s>>,
      <<"print", s>>>>

ExpectedSteps == StepsOf(16) \o StepsOf(32) \o StepsOf(48) \o StepsOf(128)

Steps == [k \in DOMAIN trace |-> <<trace[k].op, trace[k].size>>]

\* C9: main() processes the sizes strictly in the order 16, 32, 48, 128; for
\* each size the canvas is created, drawn, saved and the confirmation printed
\* in that order; a confirmation is printed only once its file is saved;
\* the canvas in use always has the size being rendered; and the run ends
\* after exactly four invocations.
C9_Sequential ==
    /\ Len(Steps) <= Len(ExpectedSteps)
    /\ Steps = SubSeq(ExpectedSteps, 1, Len(Steps))
    /\ img # NoImage => img.size = <<size, size>>
    /\ \A s \in IconSizes : Printed(IconMessage(s)) => Saved(s)
    /\ Len(out) = Len(SelectSeq(trace, LAMBDA e : e.op = "print"))
    /\ calls <= 4
    /\ pc = "done" =>
          /\ calls = 4
          /\ Steps = ExpectedSteps
          /\ out = <<IconMessage(16), IconMessage(32), IconMessage(48),
                     IconMessage(128)>>

\* C9 witness: the run is done after four invocations
C9_Witness == pc = "done" /\ calls = 4 /\ Len(out) = 4 /\ Len(trace) = 36

\* C10: for every size s of 1..MaxSize every endpoint of the five segments
\* lies on the canvas and inside the circle's bounding box
\* [s \div 8, s - s \div 8], and the line width is at least 1.
C10_EndpointsInside ==
    \A k \in DOMAIN trace :
        (IsHLine(trace[k]) \/ IsVLine(trace[k])) =>
            LET a == trace[k].args
                s == trace[k].size
            IN  /\ \A c \in {a[1], a[2], a[3], a[4]} :
                      /\ 0 <= c /\ c <= s - 1
                      /\ s \div 8 <= c /\ c <= s - s \div 8
                /\ a[5] = Max(1, s \div 16)
                /\ a[5] >= 1

\* C10 witness: all five segments are drawn for a size main() does not use
C10_Witness == pc = "save" /\ size = 50 /\ Len(HLines) = 3 /\ Len(VLines) = 2

====
